---------------------------- MODULE Spec2Model ----------------------------
(***************************************************************************)
(* Model of obidog's Lua hint generation (obidog/hints/hints.py) and of    *)
(* the flag record it reads (obidog/models/flags.py).                      *)
(*                                                                         *)
(* Python dictionaries keep insertion order; they are modelled as          *)
(* sequences of <<key, value>> pairs with pairwise distinct keys.  Python  *)
(* strings are TLA+ strings, handled character by character with Len,      *)
(* SubSeq and \o.  The element list all_elements holds references to the   *)
(* objects of the store (no copies): it is modelled as a sequence of       *)
(* <<kind, key>> references into cpp_db, so an in-place edit of an element *)
(* is an edit of the store.                                                *)
(***************************************************************************)
EXTENDS Naturals, Sequences, FiniteSets, TLC

VARIABLES
    pc,             \* position inside generate_hints
    run,            \* 1 during the first pass, 2 during a repeated pass
    cpp_db,         \* the declaration store (CppDatabase), mutated in place
    dynamic_types,  \* DYNAMIC_TYPES.dynamic_types, the process-wide registry
    all_elements,   \* the flattened bindable-element list (references)
    tables,         \* the namespace-container list handed to write_hints
    input,          \* the store as generate_hints received it (history)
    merged,         \* the store right after both merges (history)
    after1,         \* the store and list at the end of the first pass (history)
    self,           \* the flag record combine is called on
    self0,          \* the flag record before the first combine (history)
    incoming        \* the flag records passed to combine, in call order (history)

vars == <<pc, run, cpp_db, dynamic_types, all_elements, tables, input, merged,
          after1, self, self0, incoming>>

pipeVars == <<pc, run, cpp_db, dynamic_types, all_elements, tables, input,
              merged, after1>>

flagVars == <<self, self0, incoming>>

-----------------------------------------------------------------------------
(* Bounds of the model.*)

MaxMethods == 2

MaxCombine == 2

MaxSubTypes == 2

MaxEvents == 2

MaxConstructors == 2

MaxElements == 3

-----------------------------------------------------------------------------
(* Python str methods, character by character. *)

RECURSIVE replace(_, _, _)
replace(s, old, new) ==
    IF Len(s) < Len(old) THEN s
    ELSE IF SubSeq(s, 1, Len(old)) = old
         THEN new \o replace(SubSeq(s, Len(old) + 1, Len(s)), old, new)
         ELSE SubSeq(s, 1, 1) \o replace(SubSeq(s, 2, Len(s)), old, new)

RECURSIVE count(_, _)
count(s, sub) ==
    IF Len(s) < Len(sub) THEN 0
    ELSE IF SubSeq(s, 1, Len(sub)) = sub
         THEN 1 + count(SubSeq(s, Len(sub) + 1, Len(s)), sub)
         ELSE count(SubSeq(s, 2, Len(s)), sub)

startswith(s, prefix) ==
    Len(s) >= Len(prefix) /\ SubSeq(s, 1, Len(prefix)) = prefix

endswith(s, suffix) ==
    Len(s) >= Len(suffix) /\ SubSeq(s, Len(s) - Len(suffix) + 1, Len(s)) = suffix

removeprefix(s, prefix) ==
    IF startswith(s, prefix) THEN SubSeq(s, Len(prefix) + 1, Len(s)) ELSE s

removesuffix(s, suffix) ==
    IF endswith(s, suffix) THEN SubSeq(s, 1, Len(s) - Len(suffix)) ELSE s

Whitespace == {" ", "\t", "\n"}

RECURSIVE lstrip(_)
lstrip(s) ==
    IF Len(s) > 0 /\ SubSeq(s, 1, 1) \in Whitespace
    THEN lstrip(SubSeq(s, 2, Len(s))) ELSE s

RECURSIVE rstrip(_)
rstrip(s) ==
    IF Len(s) > 0 /\ SubSeq(s, Len(s), Len(s)) \in Whitespace
    THEN rstrip(SubSeq(s, 1, Len(s) - 1)) ELSE s

strip(s) == rstrip(lstrip(s))

\* The characters the regular expression class \w matches (ASCII).
WordChars ==
    {"a", "b", "c", "d", "e", "f", "g", "h", "i", "j", "k", "l", "m",
     "n", "o", "p", "q", "r", "s", "t", "u", "v", "w", "x", "y", "z",
     "A", "B", "C", "D", "E", "F", "G", "H", "I", "J", "K", "L", "M",
     "N", "O", "P", "Q", "R", "S", "T", "U", "V", "W", "X", "Y", "Z",
     "0", "1", "2", "3", "4", "5", "6", "7", "8", "9", "_"}

\* Variant: the character after "operator" is not looked at.
IsOperatorName_NoSeparator(name) ==
    /\ Len(name) >= 8
    /\ SubSeq(name, 1, 8) = "operator"

\* re.search(r"^operator\W", name): "operator" at position 0, then one
\* character that is not a word character.
IsOperatorName(name) ==
    /\ Len(name) >= 9
    /\ SubSeq(name, 1, 8) = "operator"
    /\ SubSeq(name, 9, 9) \notin WordChars

-----------------------------------------------------------------------------
(* Python dict as a sequence of <<key, value>> pairs, in insertion order. *)

Range(seq) == {seq[i] : i \in 1..Len(seq)}

Keys(d) == {d[i][1] : i \in 1..Len(d)}

Values(d) == [i \in 1..Len(d) |-> d[i][2]]

Has(d, k) == \E i \in 1..Len(d) : d[i][1] = k

Get(d, k) == d[CHOOSE i \in 1..Len(d) : d[i][1] = k][2]

\* d[k] = v : an existing key keeps its place, a new key goes last.
Put(d, k, v) ==
    IF Has(d, k)
    THEN [i \in 1..Len(d) |-> IF d[i][1] = k THEN <<k, v>> ELSE d[i]]
    ELSE Append(d, <<k, v>>)

\* d |= e
RECURSIVE Merge(_, _)
Merge(d, e) ==
    IF e = <<>> THEN d ELSE Merge(Put(d, e[1][1], e[1][2]), Tail(e))

\* {k: v for ...} over a sequence of pairs: later pairs overwrite earlier ones.
DictOf(pairs) == Merge(<<>>, pairs)

UpTo(S, n) == UNION {[1..k -> S] : k \in 0..n}

-----------------------------------------------------------------------------
(* ObidogFlagsModel *)

ObidogFlagsModel ==
    [bind_to |-> "", helpers |-> <<>>, template_hints |-> <<>>,
     abstract |-> FALSE, nobind |-> FALSE, additional_includes |-> <<>>,
     as_property |-> FALSE, copy_parent_items |-> FALSE, proxy |-> FALSE,
     noconstructor |-> FALSE]

BoolFlags ==
    {"abstract", "nobind", "as_property", "copy_parent_items", "proxy",
     "noconstructor"}

ListFlags == {"helpers", "template_hints", "additional_includes"}

\* x or y on Python strings: x when x is non-empty, else y.
StrOr(x, y) == IF x # "" THEN x ELSE y

\* Variant: self.bind_to = flags.bind_to or self.bind_to.
combine_LastBindToWins(slf, flags) ==
    [bind_to |-> StrOr(flags.bind_to, slf.bind_to),
     helpers |-> slf.helpers \o flags.helpers,
     template_hints |-> slf.template_hints \o flags.template_hints,
     abstract |-> slf.abstract \/ flags.abstract,
     nobind |-> slf.nobind \/ flags.nobind,
     additional_includes |-> slf.additional_includes \o flags.additional_includes,
     as_property |-> slf.as_property \/ flags.as_property,
     copy_parent_items |-> slf.copy_parent_items \/ flags.copy_parent_items,
     proxy |-> slf.proxy \/ flags.proxy,
     noconstructor |-> slf.noconstructor \/ flags.noconstructor]

\* ObidogFlagsModel.combine: the record self becomes.
combine(slf, flags) ==
    [bind_to |-> StrOr(slf.bind_to, flags.bind_to),
     helpers |-> slf.helpers \o flags.helpers,
     template_hints |-> slf.template_hints \o flags.template_hints,
     abstract |-> slf.abstract \/ flags.abstract,
     nobind |-> slf.nobind \/ flags.nobind,
     additional_includes |-> slf.additional_includes \o flags.additional_includes,
     as_property |-> slf.as_property \/ flags.as_property,
     copy_parent_items |-> slf.copy_parent_items \/ flags.copy_parent_items,
     proxy |-> slf.proxy \/ flags.proxy,
     noconstructor |-> slf.noconstructor \/ flags.noconstructor]

\* The flag records combine is tried on: the default record, records that set
\* one boolean, a bind_to or one list, and two records that set several.
FlagInputs ==
    {ObidogFlagsModel}
    \cup {[ObidogFlagsModel EXCEPT ![f] = TRUE] : f \in BoolFlags}
    \cup {[ObidogFlagsModel EXCEPT !.bind_to = b] : b \in {"a", "b"}}
    \cup {[ObidogFlagsModel EXCEPT ![f] = l] :
            f \in ListFlags, l \in {<<"x">>, <<"y", "z">>}}
    \cup {[ObidogFlagsModel EXCEPT !.bind_to = "a", !.helpers = <<"x">>,
                                   !.abstract = TRUE, !.proxy = TRUE],
          [ObidogFlagsModel EXCEPT !.bind_to = "b", !.helpers = <<"y", "z">>,
                                   !.nobind = TRUE]}

-----------------------------------------------------------------------------
(* The entity models.  Only the fields hints.py reads or writes are kept. *)

\* QualifiersModel(const, static): the other qualifiers are at their default.
QualifiersModel(const, static) ==
    [const |-> const, static |-> static, volatile |-> FALSE]

\* AttributeModel(name=, type=, namespace=) with the remaining fields at
\* their defaults.
AttributeModel(name, type, namespace) ==
    [name |-> name, namespace |-> namespace, type |-> type,
     qualifiers |-> QualifiersModel(FALSE, FALSE), description |-> "",
     flags |-> ObidogFlagsModel, export |-> "", location |-> "",
     visibility |-> "", urls |-> "", initializer |-> ""]

\* ClassModel(name, namespace, attributes=, constructors=[], methods={})
ClassModel(name, namespace, attributes) ==
    [name |-> name, namespace |-> namespace, attributes |-> attributes,
     constructors |-> <<>>, methods |-> <<>>, flags |-> ObidogFlagsModel]

\* The kinds of the store, in the order generate_hints walks them.
Kinds == <<"classes", "functions", "globals", "enums", "typedefs", "namespaces">>

EmptyDb ==
    [classes |-> <<>>, functions |-> <<>>, globals |-> <<>>, enums |-> <<>>,
     typedefs |-> <<>>, namespaces |-> <<>>]

-----------------------------------------------------------------------------
(* The steps of generate_hints as functions of the store. *)

\* The value of a dictionary entry replaced, the key and its place kept.
MapValues(d, F(_)) == [i \in 1..Len(d) |-> <<d[i][1], F(d[i][2])>>]

lua_class_name(class_value) ==
    replace(class_value.namespace, "::", ".") \o "." \o class_value.name

\* Variant: a constructor that has a return type keeps it.
SetReturnType_KeepSet(class_value, constructor) ==
    IF constructor.return_type # "" THEN constructor
    ELSE [constructor EXCEPT
            !.return_type = lua_class_name(class_value),
            !.description = IF @ = ""
                            THEN lua_class_name(class_value) \o " constructor"
                            ELSE @]

\* One constructor of class_value after the fix-up.
SetReturnType(class_value, constructor) ==
    [constructor EXCEPT
        !.return_type = lua_class_name(class_value),
        !.description = IF @ = ""
                        THEN lua_class_name(class_value) \o " constructor"
                        ELSE @]

_add_return_type_to_constructors(db) ==
    [db EXCEPT !.classes =
        MapValues(@, LAMBDA c :
            [c EXCEPT !.constructors =
                [i \in 1..Len(@) |-> SetReturnType(c, @[i])]])]

_remove_operators(db) ==
    [db EXCEPT !.classes =
        MapValues(@, LAMBDA c :
            [c EXCEPT !.methods =
                SelectSeq(@, LAMBDA e : ~IsOperatorName(e[2].name))])]

\* if element.flags.bind_to: element.name = element.flags.bind_to
Rename(element) ==
    IF element.flags.bind_to # ""
    THEN [element EXCEPT !.name = element.flags.bind_to]
    ELSE element

\* Variant: the members of a class are renamed by the class's bind_to.
FixElement_ParentBindTo(kind, element) ==
    IF kind = "classes"
    THEN [Rename(element) EXCEPT
            !.methods = MapValues(@, LAMBDA m :
                IF element.flags.bind_to # ""
                THEN [m EXCEPT !.name = element.flags.bind_to] ELSE m),
            !.attributes = MapValues(@, LAMBDA a :
                IF element.flags.bind_to # ""
                THEN [a EXCEPT !.name = element.flags.bind_to] ELSE a)]
    ELSE Rename(element)

\* One element of the list: itself, and for a class its methods and
\* attributes, each by its own bind_to.
FixElement(kind, element) ==
    IF kind = "classes"
    THEN [Rename(element) EXCEPT
            !.methods = MapValues(@, Rename),
            !.attributes = MapValues(@, Rename)]
    ELSE Rename(element)

_fix_bind_as(db, elements) ==
    [kind \in DOMAIN db |->
        [i \in 1..Len(db[kind]) |->
            IF <<kind, db[kind][i][1]>> \in Range(elements)
            THEN <<db[kind][i][1], FixElement(kind, db[kind][i][2])>>
            ELSE db[kind][i]]]

AttributeFromMethod(method) ==
    [name |-> method.name, namespace |-> method.namespace,
     type |-> method.return_type,
     qualifiers |-> QualifiersModel(method.qualifiers.const,
                                     method.qualifiers.static),
     description |-> method.description, flags |-> method.flags,
     export |-> method.export, location |-> method.location,
     visibility |-> method.visibility, urls |-> method.urls,
     initializer |-> ""]

\* Variant: the attribute is stored under the method's dictionary key.
PropertyKey_DictKey(entry) == entry[1]

\* The key the new attribute is stored under: method.name.
PropertyKey(entry) == entry[2].name

RECURSIVE AddProperties(_, _)
AddProperties(attributes, methods) ==
    IF methods = <<>> THEN attributes
    ELSE AddProperties(
            IF methods[1][2].flags.as_property
            THEN Put(attributes, PropertyKey(methods[1]),
                     AttributeFromMethod(methods[1][2]))
            ELSE attributes,
            Tail(methods))

_setup_methods_as_attributes(db) ==
    [db EXCEPT !.classes =
        MapValues(@, LAMBDA c :
            [c EXCEPT
                !.attributes = AddProperties(@, c.methods),
                !.methods = SelectSeq(@, LAMBDA e : ~e[2].flags.as_property)])]

-----------------------------------------------------------------------------
(* Synthesis: the event tables and the tuple shims. *)

EventsRoot == "obe::Events::"

\* initializer.strip().removeprefix("=").strip().removeprefix('"').removesuffix('"')
EventId(initializer) ==
    removesuffix(removeprefix(strip(removeprefix(strip(initializer), "=")),
                              "\""), "\"")

\* events_grouped_by_section: section -> list of (event_id, event), sections in
\* the order their first event is met.
RECURSIVE GroupBySection(_, _)
GroupBySection(grouped, events) ==
    IF events = <<>> THEN grouped
    ELSE LET event == events[1]
             section == removeprefix(event.namespace, EventsRoot)
             entry == <<EventId(Get(event.attributes, "id").initializer), event>>
         IN  GroupBySection(
                Put(grouped, section,
                    Append(IF Has(grouped, section) THEN Get(grouped, section)
                           ELSE <<>>, entry)),
                Tail(events))

EventGroupAttributes(event_group_name, events) ==
    DictOf([i \in 1..Len(events) |->
        <<events[i][1],
          AttributeModel(events[i][1],
              "fun(evt:obe.Events." \o event_group_name \o "." \o
                  events[i][2].name \o ")",
              events[i][2].namespace)>>])

_build_table_for_events(classes) ==
    LET events == SelectSeq(Values(classes),
                            LAMBDA c : startswith(c.namespace, EventsRoot))
        with_id == SelectSeq(events, LAMBDA c : Has(c.attributes, "id"))
        events_grouped_by_section == GroupBySection(<<>>, with_id)
        event_groups ==
            [i \in 1..Len(events_grouped_by_section) |->
                LET event_group_name == events_grouped_by_section[i][1] IN
                <<event_group_name,
                  ClassModel(event_group_name, "obe::Events::_EventTableGroups",
                      EventGroupAttributes(event_group_name,
                                           events_grouped_by_section[i][2]))>>]
        event_groups_as_attributes ==
            [i \in 1..Len(event_groups) |->
                <<event_groups[i][1],
                  AttributeModel(event_groups[i][2].name,
                      "obe.Events._EventTableGroups." \o event_groups[i][1],
                      event_groups[i][2].namespace)>>]
        event_namespace ==
            ClassModel("_EventTable", "obe::Events", event_groups_as_attributes)
        result ==
            DictOf([i \in 1..Len(event_groups) |->
                <<event_groups[i][2].namespace \o "::" \o event_groups[i][2].name,
                  event_groups[i][2]>>])
    IN  Put(result, "obe::Events::_EventTable", event_namespace)

\* Variant: slots counted from 1.
SlotName_FromOne(i) == "[" \o ToString(i) \o "]"

\* f"[{i}]" for the i-th slot, counted from 0.
SlotName(i) == "[" \o ToString(i - 1) \o "]"

_generate_dynamic_tuple(tuple_name, tuple_type) ==
    ClassModel(tuple_name, "",
        [i \in 1..Len(tuple_type.sub_types) |->
            <<SlotName(i),
              AttributeModel(SlotName(i), tuple_type.sub_types[i], "")>>])

_generate_dynamic_types(registry) ==
    LET tuples == SelectSeq(registry, LAMBDA e : e[2].is_tuple) IN
    DictOf([i \in 1..Len(tuples) |->
        <<tuples[i][1], _generate_dynamic_tuple(tuples[i][1], tuples[i][2])>>])

-----------------------------------------------------------------------------
(* The flattened list and the namespace containers. *)

RECURSIVE Flatten(_)
Flatten(seqs) == IF seqs = <<>> THEN <<>> ELSE seqs[1] \o Flatten(Tail(seqs))

\* Variant: only classes are filtered.
Bindable_ClassesOnly(kind, item) == kind # "classes" \/ ~item.flags.nobind

\* if not item.flags.nobind
Bindable(kind, item) == ~item.flags.nobind

\* [item for item_type in cpp_db.__dict__.keys()
\*       for item in getattr(cpp_db, item_type).values() if not item.flags.nobind]
AllElements(db) ==
    Flatten([k \in 1..Len(Kinds) |->
        LET kind == Kinds[k]
            kept == SelectSeq(db[kind], LAMBDA e : Bindable(kind, e[2]))
        IN  [i \in 1..Len(kept) |-> <<kind, kept[i][1]>>]])

\* The object a reference of the list stands for.
Deref(db, ref) == Get(db[ref[1]], ref[2])

\* sorted(..., key=lambda s: s.count("."))
SortKey(s) == count(s, ".")

\* sorted(list(set([...])), key=...): the set's iteration order is not fixed
\* (string hashing), and sorted is stable, so entries with equal keys may come
\* in any order: every outcome is in this set.
_get_namespace_tables(db, elements) ==
    LET names == {replace(Deref(db, elements[i]).namespace, "::", ".") :
                    i \in {j \in 1..Len(elements) :
                            Deref(db, elements[j]).namespace # ""}}
    IN  {t \in [1..Cardinality(names) -> names] :
            /\ \A i, j \in DOMAIN t : t[i] = t[j] => i = j
            /\ \A i, j \in DOMAIN t : i < j => SortKey(t[i]) <= SortKey(t[j])}

-----------------------------------------------------------------------------
(* generate_hints, one action per step.  discard_placeholders and          *)
(* convert_all_types ran before "start": the store holds no placeholder    *)
(* and its types are already Lua types.                                    *)

NoResult == [cpp_db |-> EmptyDb, all_elements |-> <<>>, tables |-> <<>>]

Start(db, registry) ==
    /\ pc = "start"
    /\ run = 1
    /\ cpp_db = db
    /\ dynamic_types = registry
    /\ all_elements = <<>>
    /\ tables = <<>>
    /\ input = db
    /\ merged = EmptyDb
    /\ after1 = NoResult
    /\ self = ObidogFlagsModel
    /\ self0 = ObidogFlagsModel
    /\ incoming = <<>>

\* cpp_db.classes |= _build_table_for_events(cpp_db.classes)
MergeEventTables ==
    /\ pc = "start"
    /\ cpp_db' = [cpp_db EXCEPT
                    !.classes = Merge(@, _build_table_for_events(@))]
    /\ pc' = "events"
    /\ UNCHANGED <<run, dynamic_types, all_elements, tables, input, merged,
                   after1, flagVars>>

\* cpp_db.classes |= _generate_dynamic_types()
MergeDynamicTypes ==
    /\ pc = "events"
    /\ cpp_db' = [cpp_db EXCEPT
                    !.classes = Merge(@, _generate_dynamic_types(dynamic_types))]
    /\ merged' = IF run = 1 THEN cpp_db' ELSE merged
    /\ pc' = "tuples"
    /\ UNCHANGED <<run, dynamic_types, all_elements, tables, input, after1,
                   flagVars>>

\* all_elements = [...]
BuildAllElements ==
    /\ pc = "tuples"
    /\ all_elements' = AllElements(cpp_db)
    /\ pc' = "filtered"
    /\ UNCHANGED <<run, cpp_db, dynamic_types, tables, input, merged, after1,
                   flagVars>>

AddReturnTypeToConstructors ==
    /\ pc = "filtered"
    /\ cpp_db' = _add_return_type_to_constructors(cpp_db)
    /\ pc' = "constructors"
    /\ UNCHANGED <<run, dynamic_types, all_elements, tables, input, merged,
                   after1, flagVars>>

RemoveOperators ==
    /\ pc = "constructors"
    /\ cpp_db' = _remove_operators(cpp_db)
    /\ pc' = "operators"
    /\ UNCHANGED <<run, dynamic_types, all_elements, tables, input, merged,
                   after1, flagVars>>

FixBindAs ==
    /\ pc = "operators"
    /\ cpp_db' = _fix_bind_as(cpp_db, all_elements)
    /\ pc' = "renamed"
    /\ UNCHANGED <<run, dynamic_types, all_elements, tables, input, merged,
                   after1, flagVars>>

SetupMethodsAsAttributes ==
    /\ pc = "renamed"
    /\ cpp_db' = _setup_methods_as_attributes(cpp_db)
    /\ pc' = "converted"
    /\ UNCHANGED <<run, dynamic_types, all_elements, tables, input, merged,
                   after1, flagVars>>

\* write_hints(_get_namespace_tables(all_elements), all_elements)
WriteHints ==
    /\ pc = "converted"
    /\ tables' \in _get_namespace_tables(cpp_db, all_elements)
    /\ pc' = "done"
    /\ UNCHANGED <<run, cpp_db, dynamic_types, all_elements, input, merged,
                   after1, flagVars>>

\* generate_hints called once more on the store it has already processed.
RunAgain ==
    /\ pc = "done"
    /\ run = 1
    /\ after1' = [cpp_db |-> cpp_db, all_elements |-> all_elements,
                  tables |-> tables]
    /\ run' = 2
    /\ pc' = "start"
    /\ UNCHANGED <<cpp_db, dynamic_types, all_elements, tables, input, merged,
                   flagVars>>

Next ==
    \/ MergeEventTables
    \/ MergeDynamicTypes
    \/ BuildAllElements
    \/ AddReturnTypeToConstructors
    \/ RemoveOperators
    \/ FixBindAs
    \/ SetupMethodsAsAttributes
    \/ WriteHints

NextAgain == Next \/ RunAgain

-----------------------------------------------------------------------------
(* Stores the pipeline is run on. *)

FunctionModel(name, namespace, as_property, bind_to) ==
    [name |-> name, namespace |-> namespace, return_type |-> "T_" \o name,
     qualifiers |-> [const |-> TRUE, static |-> FALSE, volatile |-> TRUE],
     description |-> "doc of " \o name,
     flags |-> [ObidogFlagsModel EXCEPT !.as_property = as_property,
                                        !.bind_to = bind_to],
     export |-> "export of " \o name, location |-> "location of " \o name,
     visibility |-> "public", urls |-> "urls of " \o name]

Entity(name, namespace, nobind, bind_to) ==
    [name |-> name, namespace |-> namespace,
     flags |-> [ObidogFlagsModel EXCEPT !.nobind = nobind, !.bind_to = bind_to]]

Class(name, namespace, nobind, bind_to, attributes, constructors, methods) ==
    [name |-> name, namespace |-> namespace, attributes |-> attributes,
     constructors |-> constructors, methods |-> methods,
     flags |-> [ObidogFlagsModel EXCEPT !.nobind = nobind, !.bind_to = bind_to]]

\* A dictionary keyed by its values' names.
ByName(values) == [i \in 1..Len(values) |-> <<values[i].name, values[i]>>]

\* A dictionary keyed by its values' qualified names.
ByQualifiedName(values) ==
    [i \in 1..Len(values) |->
        <<values[i].namespace \o "::" \o values[i].name, values[i]>>]

DistinctNames(values) ==
    \A i, j \in 1..Len(values) : values[i].name = values[j].name => i = j

(* One class obe::Foo with up to MaxMethods methods, some of them flagged  *)
(* as_property, some renamed by bind_to, possibly onto each other's name.   *)
MethodNames == {"get", "size", "operator+"}

MethodInputs ==
    {FunctionModel(n, "obe", p, b) :
        n \in MethodNames, p \in BOOLEAN, b \in {"", "get", "prop"}}

MethodStores ==
    {[EmptyDb EXCEPT !.classes =
        ByQualifiedName(<<Class("Foo", "obe", nobind, bind_to, ByName(attrs),
                                <<>>, ByName(methods))>>)] :
        nobind \in BOOLEAN, bind_to \in {"", "Bar"},
        attrs \in {<<>>, <<AttributeModel("get", "old", "obe")>>,
                   <<[AttributeModel("size", "old", "obe") EXCEPT
                        !.flags.bind_to = "len"]>>},
        methods \in {m \in UpTo(MethodInputs, MaxMethods) : DistinctNames(m)}}

Init == \E db \in MethodStores : Start(db, <<>>)

Spec == Init /\ [][Next]_vars

(* One class obe::Foo whose methods have operator-like names. *)
OperatorMethodNames ==
    {"get", "operator+", "operator bool", "operatorFoo", "operator",
     "operator_", "my_operator+"}

OperatorMethodInputs ==
    {FunctionModel(n, "obe", p, b) :
        n \in OperatorMethodNames, p \in BOOLEAN, b \in {"", "plus"}}

OperatorStores ==
    {[EmptyDb EXCEPT !.classes =
        ByQualifiedName(<<Class("Foo", "obe", nobind, "", <<>>, <<>>,
                                ByName(methods))>>)] :
        nobind \in BOOLEAN,
        methods \in {m \in UpTo(OperatorMethodInputs, MaxMethods) :
                        DistinctNames(m)}}

InitOperators == \E db \in OperatorStores : Start(db, <<>>)

SpecOperators == InitOperators /\ [][Next]_vars

-----------------------------------------------------------------------------
(* Properties of the steps on methods. *)

PastOperators == pc \in {"operators", "renamed", "converted", "done"}

PastConversion == pc \in {"converted", "done"}

\* The word operator, then a character that is not a word character.
OperatorLike(name) ==
    LET rest == removeprefix(name, "operator") IN
    /\ startswith(name, "operator")
    /\ rest # ""
    /\ Head(rest) \notin WordChars

\* The class of the store stored under the key of the i-th class of `merged`.
Now(i) == Get(cpp_db.classes, merged.classes[i][1])

Was(i) == merged.classes[i][2]

IsBindable(i) == ~Was(i).flags.nobind

\* The name a method of class i goes by once bind_to has been applied.
FinalName(i, m) ==
    IF IsBindable(i) /\ m.flags.bind_to # "" THEN m.flags.bind_to ELSE m.name

\* The attribute a method is turned into, under the given name.
IsPropertyOf(attribute, m, name) ==
    /\ attribute.name = name
    /\ attribute.type = m.return_type
    /\ attribute.qualifiers =
          [const |-> m.qualifiers.const, static |-> m.qualifiers.static,
           volatile |-> FALSE]
    /\ attribute.description = m.description
    /\ attribute.flags = m.flags
    /\ attribute.export = m.export
    /\ attribute.location = m.location
    /\ attribute.visibility = m.visibility
    /\ attribute.urls = m.urls

\* C3, as stated: after the pipeline every as_property method that is not an
\* operator is gone from methods, and attributes holds it under that same
\* (original) name with the method's return type, const/static qualifiers and
\* copied fields, also when the method or the class carries a bind_to.
C3_PropertyUnderOriginalName ==
    PastConversion =>
        \A i \in 1..Len(merged.classes) :
            \A j \in 1..Len(Was(i).methods) :
                LET m == Was(i).methods[j][2] IN
                (m.flags.as_property /\ ~IsOperatorName(m.name)) =>
                    /\ ~Has(Now(i).methods, m.name)
                    /\ Has(Now(i).attributes, m.name)
                    /\ IsPropertyOf(Get(Now(i).attributes, m.name), m,
                                    FinalName(i, m))

\* C3, amended: the method is gone from methods under its original key, and
\* attributes holds an entry under the method's name after renaming (its
\* bind_to when it has one and the class is bindable, else its original
\* name); that entry carries the fields of the last as_property method, in
\* the class's method order, that ends up with this name.
C3_PropertyUnderFinalName ==
    PastConversion =>
        \A i \in 1..Len(merged.classes) :
            \A j \in 1..Len(Was(i).methods) :
                LET m == Was(i).methods[j][2]
                    later == {k \in (j + 1)..Len(Was(i).methods) :
                                LET n == Was(i).methods[k][2] IN
                                /\ n.flags.as_property
                                /\ ~IsOperatorName(n.name)
                                /\ FinalName(i, n) = FinalName(i, m)}
                IN
                (m.flags.as_property /\ ~IsOperatorName(m.name)) =>
                    /\ ~Has(Now(i).methods, Was(i).methods[j][1])
                    /\ Has(Now(i).attributes, FinalName(i, m))
                    /\ later = {} =>
                         IsPropertyOf(Get(Now(i).attributes, FinalName(i, m)),
                                      m, FinalName(i, m))

\* C3's case: a bindable class had an as_property method renamed by bind_to,
\* and the conversion has stored it under the new name.
C3_Witness ==
    /\ pc = "done"
    /\ \E i \in 1..Len(merged.classes) :
        \E j \in 1..Len(Was(i).methods) :
            LET m == Was(i).methods[j][2] IN
            /\ IsBindable(i)
            /\ m.flags.as_property
            /\ m.flags.bind_to = "prop"
            /\ Has(Now(i).attributes, "prop")
            /\ ~Has(Now(i).attributes, m.name)

\* C4: once the operator step has run, no class (bindable or not) has a method
\* whose original name is operator + non-word character, whatever its bind_to
\* and as_property, and no attribute was made from it; every other method is
\* still a method, or has become an attribute by the as_property conversion.
C4_OperatorsRemoved ==
    PastOperators =>
        \A i \in 1..Len(merged.classes) :
            \A j \in 1..Len(Was(i).methods) :
                LET key == Was(i).methods[j][1]
                    m == Was(i).methods[j][2]
                IN
                IF OperatorLike(m.name)
                THEN /\ ~Has(Now(i).methods, key)
                     /\ \A a \in 1..Len(Now(i).attributes) :
                            Now(i).attributes[a][2].type # m.return_type
                ELSE \/ Has(Now(i).methods, key)
                     \/ PastConversion /\ m.flags.as_property

\* C4's case: an operator flagged as_property and renamed by bind_to was in
\* the class next to a method named operatorFoo or operator, which is kept.
C4_Witness ==
    /\ pc = "done"
    /\ \E i \in 1..Len(merged.classes) :
        /\ \E j \in 1..Len(Was(i).methods) :
            LET m == Was(i).methods[j][2] IN
            /\ OperatorLike(m.name)
            /\ m.flags.as_property
            /\ m.flags.bind_to # ""
        /\ \E key \in {"operatorFoo", "operator"} :
            /\ Has(Was(i).methods, key)
            /\ Has(Now(i).methods, key)

\* The two orders of the rename and conversion steps give the same store.
StepsCommute ==
    _setup_methods_as_attributes(_fix_bind_as(cpp_db, all_elements))
        = _fix_bind_as(_setup_methods_as_attributes(cpp_db), all_elements)

\* C9, as stated: on the store the two steps are run on, rename then
\* conversion and conversion then rename give the same store, keys included.
C9_Commute == pc = "operators" => StepsCommute

\* No as_property method of a class of the element list has a bind_to that
\* changes its name.
NoRenamedProperty ==
    \A r \in Range(all_elements) :
        r[1] = "classes" =>
            \A e \in Range(Deref(cpp_db, r).methods) :
                e[2].flags.as_property =>
                    e[2].flags.bind_to \in {"", e[2].name}

\* C9, amended: the two orders give the same store when no as_property method
\* of a bindable class carries a bind_to that changes its name (otherwise the
\* attribute is stored under the new name in one order and under the old name
\* in the other).
C9_CommuteWithoutRenamedProperty ==
    (pc = "operators" /\ NoRenamedProperty) => StepsCommute

\* C9's case: both steps have work to do on a bindable class: a method and the
\* class are renamed, and a method is converted.
C9_Witness ==
    /\ pc = "operators"
    /\ NoRenamedProperty
    /\ \E r \in Range(all_elements) :
        /\ r[1] = "classes"
        /\ Deref(cpp_db, r).flags.bind_to # ""
        /\ \E e \in Range(Deref(cpp_db, r).methods) : e[2].flags.as_property
        /\ \E e \in Range(Deref(cpp_db, r).methods) :
            e[2].flags.bind_to \notin {"", e[2].name}
    /\ cpp_db # _fix_bind_as(cpp_db, all_elements)
    /\ cpp_db # _setup_methods_as_attributes(cpp_db)

-----------------------------------------------------------------------------
(* One class Foo with up to MaxConstructors constructors, run twice. *)

ConstructorInputs ==
    {[return_type |-> t, description |-> d] :
        t \in {"", "void"}, d \in {"", "Creates a Foo"}}

ConstructorStores ==
    {[EmptyDb EXCEPT !.classes =
        ByQualifiedName(<<Class("Foo", namespace, nobind, bind_to, <<>>,
                                constructors, <<>>)>>)] :
        namespace \in {"obe", "obe::Graphics::Canvas"},
        nobind \in BOOLEAN, bind_to \in {"", "Foo", "Bar"},
        constructors \in UpTo(ConstructorInputs, MaxConstructors)}

InitConstructors == \E db \in ConstructorStores : Start(db, <<>>)

SpecConstructors == InitConstructors /\ [][NextAgain]_vars

\* The dotted name of a namespace, written out for the namespaces used here.
Dotted(namespace) ==
    CASE namespace = "obe" -> "obe"
      [] namespace = "obe::Graphics::Canvas" -> "obe.Graphics.Canvas"
      [] namespace = "obe::Events" -> "obe.Events"
      [] namespace = "obe::Events::_EventTableGroups" -> "obe.Events._EventTableGroups"
      [] namespace = "" -> ""

\* C2, as stated: after the first pass every constructor of every class has
\* as return_type the class's dotted namespace, ".", and the class's final
\* name (the bind_to name when the class was renamed); a constructor without
\* description got that qualified name followed by " constructor", one with a
\* description kept it.
C2_ConstructorsNameFinalClass ==
    (pc = "done" /\ run = 1) =>
        \A i \in 1..Len(merged.classes) :
            \A j \in 1..Len(Was(i).constructors) :
                LET qualified == Dotted(Now(i).namespace) \o "." \o Now(i).name
                    before == Was(i).constructors[j]
                    after == Now(i).constructors[j]
                IN
                /\ Len(Now(i).constructors) = Len(Was(i).constructors)
                /\ after.return_type = qualified
                /\ after.description =
                      IF before.description = ""
                      THEN qualified \o " constructor"
                      ELSE before.description

\* A bindable class with a constructor and a bind_to that changes its name.
HasRenamedClassWithConstructor ==
    \E i \in 1..Len(merged.classes) :
        /\ IsBindable(i)
        /\ Was(i).constructors # <<>>
        /\ Was(i).flags.bind_to \notin {"", Was(i).name}

\* C10: the pipeline is not idempotent: on every store that holds a bindable
\* class with a constructor and a bind_to that changes its name, the second
\* pass leaves a store different from the one the first pass left.
C10_SecondPassDiffers ==
    (pc = "done" /\ run = 2 /\ HasRenamedClassWithConstructor) =>
        cpp_db # after1.cpp_db

\* C10's case: such a store has been through both passes; the element list is
\* the same, the store is not.
C10_Witness ==
    /\ pc = "done"
    /\ run = 2
    /\ HasRenamedClassWithConstructor
    /\ all_elements = after1.all_elements
    /\ cpp_db # after1.cpp_db

-----------------------------------------------------------------------------
(* Stores with entities of every kind, bindable or not, next to an event    *)
(* class and a registered tuple, so that both syntheses add classes.        *)

\* Of one kind: nothing, a bindable entity, or an excluded and a bindable one.
KindInputs ==
    {<<>>,
     ByQualifiedName(<<Entity("shown", "obe", FALSE, "")>>),
     ByQualifiedName(<<Entity("hidden", "obe", TRUE, "Alias"),
                       Entity("shown", "obe", FALSE, "Alias")>>)}

KeyPressed(nobind) ==
    Class("KeyPressed", "obe::Events::Input", nobind, "",
          ByName(<<[AttributeModel("id", "string", "obe::Events::Input")
                      EXCEPT !.initializer = "= \"KeyPressed\""]>>),
          <<>>, <<>>)

\* Classes of the input: an event class, and excluded classes stored under
\* the keys the syntheses write to.
ClassInputs ==
    {ByQualifiedName(event) \o table \o shim :
        event \in {<<>>, <<KeyPressed(FALSE)>>, <<KeyPressed(TRUE)>>},
        table \in {<<>>, <<<<"obe::Events::_EventTable",
                            Class("_EventTable", "obe::Events", TRUE, "",
                                  <<>>, <<>>, <<>>)>>>>},
        shim \in {<<>>, <<<<"Pair", Class("Pair", "", TRUE, "", <<>>, <<>>,
                                           <<>>)>>>>}}

FilterStores ==
    {[classes |-> c, functions |-> f, globals |-> g, enums |-> e,
      typedefs |-> t, namespaces |-> n] :
        c \in ClassInputs, f \in KindInputs, g \in KindInputs,
        e \in KindInputs, t \in KindInputs, n \in KindInputs}

FilterRegistries ==
    {<<>>, <<<<"Pair", [is_tuple |-> TRUE, sub_types |-> <<"number", "string">>]>>>>}

InitFilter ==
    \E db \in FilterStores, registry \in FilterRegistries : Start(db, registry)

SpecFilter == InitFilter /\ [][Next]_vars

PastFilter ==
    pc \in {"filtered", "constructors", "operators", "renamed", "converted",
            "done"}

\* C1: from the moment the element list is built, it holds exactly the
\* entities of the store, of every kind and synthesized classes included,
\* whose flags.nobind is false, each once.
C1_ExactlyTheBindable ==
    PastFilter =>
        /\ \A k \in 1..Len(Kinds) :
            \A e \in Range(cpp_db[Kinds[k]]) :
                (<<Kinds[k], e[1]>> \in Range(all_elements))
                    <=> (e[2].flags.nobind = FALSE)
        /\ \A i \in 1..Len(all_elements) :
            /\ all_elements[i][1] \in Range(Kinds)
            /\ Has(cpp_db[all_elements[i][1]], all_elements[i][2])
            /\ \A j \in 1..Len(all_elements) :
                all_elements[i] = all_elements[j] => i = j

\* C1's case: the list holds a synthesized event group and a tuple shim that
\* replaced an excluded class, a bindable entity of another kind, and leaves
\* out an excluded global and an excluded class.
C1_Witness ==
    /\ pc = "done"
    /\ <<"classes", "obe::Events::_EventTableGroups::Input">> \in Range(all_elements)
    /\ <<"classes", "Pair">> \in Range(all_elements)
    /\ Has(input.classes, "Pair")
    /\ <<"functions", "obe::shown">> \in Range(all_elements)
    /\ Has(cpp_db.globals, "obe::hidden")
    /\ <<"globals", "obe::hidden">> \notin Range(all_elements)
    /\ Has(cpp_db.classes, "obe::Events::Input::KeyPressed")
    /\ <<"classes", "obe::Events::Input::KeyPressed">> \notin Range(all_elements)

-----------------------------------------------------------------------------
(* Up to MaxEvents classes in and around the events namespaces. *)

\* The initializers of an id attribute, each with the literal it stands for.
IdInitializers ==
    {<<"= \"KeyPressed\"", "KeyPressed">>, <<" =  \"Quit\" ", "Quit">>,
     <<"\"Quit\"", "Quit">>}

IdAttributes(namespace) ==
    {<<>>} \cup
    {ByName(<<[AttributeModel("id", "string", namespace)
                EXCEPT !.initializer = init[1]]>>) : init \in IdInitializers}

EventClassInputs ==
    UNION {{Class(name, namespace, FALSE, "", attributes, <<>>, <<>>) :
                name \in {"KeyPressed", "Quit"},
                attributes \in IdAttributes(namespace)} :
            namespace \in {"obe::Events::Input", "obe::Events::Game",
                           "obe::Events::Input::Pad", "obe::Events",
                           "obe::Input"}}

DistinctQualifiedNames(values) ==
    \A i, j \in 1..Len(values) :
        (values[i].namespace = values[j].namespace
            /\ values[i].name = values[j].name) => i = j

EventStores ==
    {[EmptyDb EXCEPT !.classes = ByQualifiedName(classes)] :
        classes \in {c \in UpTo(EventClassInputs, MaxEvents) :
                        DistinctQualifiedNames(c)}}

InitEvents == \E db \in EventStores : Start(db, <<>>)

SpecEvents == InitEvents /\ [][Next]_vars

\* The literal an id initializer stands for.
IdLiteral(initializer) ==
    (CHOOSE init \in IdInitializers : init[1] = initializer)[2]

\* The part of s before the first "::" (all of s when there is none).
RECURSIVE FirstComponent(_)
FirstComponent(s) ==
    IF s = "" \/ startswith(s, "::") THEN ""
    ELSE SubSeq(s, 1, 1) \o FirstComponent(SubSeq(s, 2, Len(s)))

\* The indices, in store order, of the input classes under the events root
\* that carry an id attribute.
EventsWithId ==
    {i \in 1..Len(input.classes) :
        /\ startswith(input.classes[i][2].namespace, "obe::Events::")
        /\ Has(input.classes[i][2].attributes, "id")}

\* The section of an event class: its immediate sub-namespace of the root.
SectionOf(i) ==
    FirstComponent(removeprefix(input.classes[i][2].namespace, "obe::Events::"))

IdOf(i) == IdLiteral(Get(input.classes[i][2].attributes, "id").initializer)

\* The event table of C5 for the group of events that `GroupOf` puts together.
EventTablesFor(GroupOf(_)) ==
    LET groups == {GroupOf(i) : i \in EventsWithId}
        tableKey == "obe::Events::_EventTable"
    IN
    /\ \A S \in groups :
        LET key == "obe::Events::_EventTableGroups::" \o S
            members == {i \in EventsWithId : GroupOf(i) = S}
        IN
        /\ Has(cpp_db.classes, key)
        /\ Get(cpp_db.classes, key).name = S
        /\ Get(cpp_db.classes, key).namespace = "obe::Events::_EventTableGroups"
        /\ Get(cpp_db.classes, key).constructors = <<>>
        /\ Get(cpp_db.classes, key).methods = <<>>
        /\ Keys(Get(cpp_db.classes, key).attributes) = {IdOf(i) : i \in members}
        /\ \A i \in members :
            (\A j \in members : IdOf(j) = IdOf(i) => j <= i) =>
                Get(Get(cpp_db.classes, key).attributes, IdOf(i)).type =
                    "fun(evt:obe.Events." \o S \o "." \o
                        input.classes[i][2].name \o ")"
    /\ Has(cpp_db.classes, tableKey)
    /\ Get(cpp_db.classes, tableKey).name = "_EventTable"
    /\ Get(cpp_db.classes, tableKey).namespace = "obe::Events"
    /\ Keys(Get(cpp_db.classes, tableKey).attributes) = groups
    /\ Len(Get(cpp_db.classes, tableKey).attributes) = Cardinality(groups)
    /\ \A S \in groups :
        Get(Get(cpp_db.classes, tableKey).attributes, S).type =
            "obe.Events._EventTableGroups." \o S
    /\ \A i \in 1..Len(input.classes) :
        Has(cpp_db.classes, input.classes[i][1])

\* C5, as stated: the event classes are grouped by their immediate
\* sub-namespace of the events root; every section with an event class that
\* has an id gets a class named after it in obe::Events::_EventTableGroups
\* mapping each id literal to fun(evt:obe.Events.<section>.<class>) of the last
\* class with that id; classes without id add nothing; _EventTable has
\* exactly one attribute per section, typed obe.Events._EventTableGroups.<section>.
C5_TablesBySection == pc = "events" => EventTablesFor(SectionOf)

\* What the code groups by: everything that follows the events root.
RemainderOf(i) == removeprefix(input.classes[i][2].namespace, "obe::Events::")

\* What the code builds (C5 with the section replaced by the whole remainder
\* of the namespace, "Input::Pad" for obe::Events::Input::Pad).
C5_TablesByRemainder == pc = "events" => EventTablesFor(RemainderOf)

-----------------------------------------------------------------------------
(* Up to MaxElements functions spread over nested namespaces. *)

NamespaceInputs == {"", "a", "a::b", "a::b::c", "d::e"}

NamespaceStores ==
    {[EmptyDb EXCEPT !.functions =
        [i \in 1..Len(namespaces) |->
            <<namespaces[i] \o "::f" \o ToString(i),
              Entity("f" \o ToString(i), namespaces[i], FALSE, "")>>]] :
        namespaces \in UpTo(NamespaceInputs, MaxElements)}

InitNamespaces == \E db \in NamespaceStores : Start(db, <<>>)

SpecNamespaces == InitNamespaces /\ [][Next]_vars

\* The proper dot-prefixes of a container name: a and a.b for a.b.c.
Ancestors(name) ==
    {SubSeq(name, 1, i - 1) : i \in {j \in 1..Len(name) : SubSeq(name, j, j) = "."}}

Position(seq, x) == CHOOSE i \in 1..Len(seq) : seq[i] = x

\* The number of "." in a container name, counted one character at a time.
Separators(name) == Cardinality({j \in 1..Len(name) : SubSeq(name, j, j) = "."})

NoDuplicates(seq) == \A i, j \in 1..Len(seq) : seq[i] = seq[j] => i = j

ShallowFirst(seq) ==
    \A i, j \in 1..Len(seq) :
        Separators(seq[i]) < Separators(seq[j]) => i < j

\* C6, as stated: the container list has no duplicates, lists entries with
\* fewer separators before entries with more, and holds every ancestor
\* container of each of its entries at an earlier position.
C6_AncestorsDeclaredFirst ==
    pc = "done" =>
        /\ NoDuplicates(tables)
        /\ ShallowFirst(tables)
        /\ \A i \in 1..Len(tables) :
            \A a \in Ancestors(tables[i]) :
                /\ a \in Range(tables)
                /\ Position(tables, a) < i

\* What holds of the list (C6 without the ancestors): no duplicates, shallow entries first, exactly
\* the dotted namespaces of the elements, and every ancestor that is in the
\* list comes before its descendants.
C6_OrderedByDepth ==
    pc = "done" =>
        /\ NoDuplicates(tables)
        /\ ShallowFirst(tables)
        /\ Range(tables) =
              {replace(Deref(cpp_db, r).namespace, "::", ".") :
                  r \in {q \in Range(all_elements) :
                            Deref(cpp_db, q).namespace # ""}}
        /\ \A i \in 1..Len(tables) :
            \A a \in Ancestors(tables[i]) :
                a \in Range(tables) => Position(tables, a) < i

-----------------------------------------------------------------------------
(* Up to two registered dynamic types of up to MaxSubTypes sub-types. *)

DynamicTypeInputs ==
    {[is_tuple |-> t, sub_types |-> s] :
        t \in BOOLEAN, s \in UpTo({"number", "string"}, MaxSubTypes)}

RegistryInputs ==
    {<<>>}
    \cup {<<<<"Pair", p>>>> : p \in DynamicTypeInputs}
    \cup {<<<<"Pair", p>>, <<"Triple", q>>>> :
            p \in DynamicTypeInputs, q \in DynamicTypeInputs}

\* The store already holds a class under the name of a dynamic type, or not.
TupleStores ==
    {EmptyDb} \cup
    {[EmptyDb EXCEPT !.classes =
        <<<<name, Class(name, "", nobind, "", <<>>,
                        <<[return_type |-> "", description |-> ""]>>, <<>>)>>>>] :
        name \in {"Pair", "Triple"}, nobind \in BOOLEAN}

InitTuples ==
    \E db \in TupleStores, registry \in RegistryInputs : Start(db, registry)

SpecTuples == InitTuples /\ [][Next]_vars

PastTuples ==
    pc \in {"tuples", "filtered", "constructors", "operators", "renamed",
            "converted", "done"}

\* The attribute keys of a shim, slot by slot.
SlotKeys == <<"[0]", "[1]", "[2]", "[3]", "[4]", "[5]">>

\* C8: once the tuple shims are merged, the class collection holds under each
\* registered tuple's name a class with exactly one attribute per sub-type,
\* keyed and named [0] .. [N-1] in slot order and typed by that sub-type, with
\* no constructors and no methods; a registered type that is not a tuple adds
\* no class (a class of that name is the one the store already had).
C8_TupleShims ==
    PastTuples =>
        \A r \in 1..Len(dynamic_types) :
            LET name == dynamic_types[r][1]
                type == dynamic_types[r][2]
                N == Len(type.sub_types)
            IN
            IF type.is_tuple
            THEN /\ Has(cpp_db.classes, name)
                 /\ LET shim == Get(cpp_db.classes, name) IN
                    /\ shim.name = name
                    /\ Len(shim.attributes) = N
                    /\ \A i \in 1..N :
                        /\ shim.attributes[i][1] = SlotKeys[i]
                        /\ shim.attributes[i][2].name = SlotKeys[i]
                        /\ shim.attributes[i][2].type = type.sub_types[i]
                    /\ shim.constructors = <<>>
                    /\ shim.methods = <<>>
            ELSE Has(cpp_db.classes, name) =>
                    /\ Has(input.classes, name)
                    /\ Get(cpp_db.classes, name).attributes
                          = Get(input.classes, name).attributes
                    /\ Len(Get(cpp_db.classes, name).constructors) = 1

\* C8's case: a tuple with MaxSubTypes sub-types replaced a class of its name,
\* next to a registered type that is not a tuple.
C8_Witness ==
    /\ pc = "done"
    /\ \E r \in 1..Len(dynamic_types) :
        /\ dynamic_types[r][2].is_tuple
        /\ Len(dynamic_types[r][2].sub_types) = MaxSubTypes
        /\ Has(input.classes, dynamic_types[r][1])
        /\ Len(Get(cpp_db.classes, dynamic_types[r][1]).attributes) = MaxSubTypes
    /\ \E r \in 1..Len(dynamic_types) :
        /\ ~dynamic_types[r][2].is_tuple
        /\ ~Has(cpp_db.classes, dynamic_types[r][1])

-----------------------------------------------------------------------------
(* combine called up to MaxCombine times on one flag record. *)

InitFlags ==
    /\ pc = "idle"
    /\ run = 1
    /\ cpp_db = EmptyDb
    /\ dynamic_types = <<>>
    /\ all_elements = <<>>
    /\ tables = <<>>
    /\ input = EmptyDb
    /\ merged = EmptyDb
    /\ after1 = NoResult
    /\ self \in FlagInputs
    /\ self0 = self
    /\ incoming = <<>>

\* self.combine(flags)
Combine ==
    /\ Len(incoming) < MaxCombine
    /\ \E flags \in FlagInputs :
        /\ self' = combine(self, flags)
        /\ incoming' = Append(incoming, flags)
    /\ UNCHANGED <<self0, pipeVars>>

\* self.combine(self): the record combined with itself.
CombineWithSelf ==
    /\ Len(incoming) < MaxCombine
    /\ self' = combine(self, self)
    /\ incoming' = Append(incoming, self)
    /\ UNCHANGED <<self0, pipeVars>>

NextFlags == Combine \/ CombineWithSelf

SpecFlags == InitFlags /\ [][NextFlags]_vars

\* All flag records that went into self, oldest first.
Contributions == <<self0>> \o incoming

RECURSIVE Concatenation(_, _)
Concatenation(records, field) ==
    IF records = <<>> THEN <<>>
    ELSE records[1][field] \o Concatenation(Tail(records), field)

\* C7: after any sequence of combine calls every boolean flag is the OR of
\* its initial and incoming values, every list flag is the initial list
\* followed by the incoming lists in call order, and bind_to is the first
\* non-empty value among the initial and incoming ones.
C7_FlagsOnlyGrow ==
    /\ \A f \in BoolFlags :
        self[f] = (\E i \in 1..Len(Contributions) : Contributions[i][f])
    /\ \A f \in ListFlags : self[f] = Concatenation(Contributions, f)
    /\ LET set == {i \in 1..Len(Contributions) : Contributions[i].bind_to # ""}
       IN  IF set = {} THEN self.bind_to = ""
           ELSE self.bind_to =
                   Contributions[CHOOSE i \in set : \A j \in set : i <= j].bind_to

\* C7's case: MaxCombine calls, the last of which brought a bind_to that lost
\* against an earlier one, a list appended to a non-empty one, and FALSE for a
\* boolean that was already set.
C7_Witness ==
    /\ Len(incoming) = MaxCombine
    /\ incoming[MaxCombine].bind_to \notin {"", self.bind_to}
    /\ \E f \in ListFlags : self0[f] # <<>> /\ incoming[MaxCombine][f] # <<>>
    /\ \E f \in BoolFlags : self0[f] /\ ~incoming[MaxCombine][f]

=============================================================================
